---------------------------- MODULE Spec2Model ----------------------------
(***************************************************************************)
(* The 8254 timer driver of devices/timer.c: the tick counter and its      *)
(* interrupt handler, the readers of the counter, the sleep entry points   *)
(* and the calibration of loops_per_tick.                                  *)
(*                                                                         *)
(* One kernel thread calls the public operations; the timer interrupt is   *)
(* delivered between any two of its steps while external interrupts are    *)
(* enabled.  The thread's position is a call stack of labels (pc), its     *)
(* locals are the record loc.                                              *)
(***************************************************************************)
EXTENDS Integers, Sequences, FiniteSets

VARIABLES
    ticks,            \* static int64_t ticks
    loops_per_tick,   \* static unsigned loops_per_tick, as the set of its 1 bits
    thread_mlfqs,     \* the feedback-scheduler flag (threads/thread.h)
    TIMER_FREQ,       \* the build's tick frequency (devices/timer.h), 19..1000
    cap,              \* busy-wait iterations that fit in one tick, as a bit set
    intr_level,       \* "ON" / "OFF": external interrupts of the running thread
    pc,               \* the thread's call stack of labels, <<>> when it is idle
    op,               \* the public operation called last: name, argument, level
    loc,              \* the locals of the active functions
    wake,             \* wake time registered by thread_sleep, NoWake when none
    trace,            \* per handled interrupt, the hooks the handler called
    tcalls            \* the calls made so far by the operation in op

vars == <<ticks, loops_per_tick, thread_mlfqs, TIMER_FREQ, cap, intr_level,
          pc, op, loc, wake, trace, tcalls>>

----------------------------------------------------------------------------
(* Bounds of the model. *)

\* Interrupts delivered while the thread is outside timer_calibrate.
MaxTicks == 4
\* Interrupts delivered in all, timer_calibrate included.
MaxCalTicks == 30
\* Interrupts delivered in the tick-only specification.
MaxCadenceTicks == 408
\* Interrupts delivered during one probe's busy-wait that overruns the tick.
MaxOverrun == 1
\* Interrupts delivered in the calibration-only specification.
MaxProbeTicks == 30

----------------------------------------------------------------------------
(* C integer arithmetic. *)

\* int64_t division truncates toward zero.
CDiv(a, b) ==
    IF (a >= 0) = (b > 0) \/ a = 0
    THEN (IF a >= 0 THEN a ELSE -a) \div (IF b >= 0 THEN b ELSE -b)
    ELSE -((IF a >= 0 THEN a ELSE -a) \div (IF b >= 0 THEN b ELSE -b))

\* Width of `unsigned`.
UnsignedBits == 32

Max(S) == CHOOSE m \in S : \A e \in S : e <= m

\* A shift on a type wide enough never to lose the leading bit.
ShlNoWrap(x, k) == {b + k : b \in x}

\* x << k, x >> k, x | y on unsigned values held as sets of bit positions.
Shl(x, k) == {b + k : b \in {c \in x : c + k < UnsignedBits}}
Shr(x, k) == {b - k : b \in {c \in x : c >= k}}
BitOr(x, y) == x \cup y

\* x > y on unsigned values.
Gt(x, y) ==
    LET d == (x \ y) \cup (y \ x) IN d # {} /\ Max(d) \in x

RECURSIVE ToNat(_)
ToNat(x) == IF x = {} THEN 0 ELSE 2 ^ Max(x) + ToNat(x \ {Max(x)})

ToBits(n) == {b \in 0 .. 30 : (n \div (2 ^ b)) % 2 = 1}


----------------------------------------------------------------------------
(* The state after boot. *)

\* TIMER_FREQ values of the builds checked (timer.c lines 13-18 allow 19..1000).
FreqSet == {19, 22, 100}
SleepFreqSet == {19, 100}

\* One-tick capacities of the machines checked, in busy-wait iterations.
CapSet == {ToBits(700), ToBits(1331), ToBits(2047), 0 .. 31}

Loc0 ==
    [n |-> 0, then |-> 0, start |-> 0, t |-> 0, old_level |-> "ON", ret |-> 0,
     loops |-> 0, tm_loops |-> {}, tm_start |-> 0, tm_ret |-> FALSE,
     high_bit |-> {}, test_bit |-> {},
     count |-> 0, seen_n |-> 0, has_prev |-> FALSE, prev_t |-> 0, prev_n |-> 0]

Boot(freqs, caps) ==
    /\ ticks = 0
    /\ loops_per_tick = {}
    /\ thread_mlfqs \in BOOLEAN
    /\ TIMER_FREQ \in freqs
    /\ cap \in caps
    /\ intr_level = "ON"
    /\ pc = <<>>
    /\ op = [name |-> "boot", arg |-> 0, level |-> "ON"]
    /\ loc = Loc0
    /\ wake = {}
    /\ trace = <<>>
    /\ tcalls = <<>>

Init == Boot(SleepFreqSet, CapSet)

InitCadence == Boot(FreqSet, {ToBits(1331)})

----------------------------------------------------------------------------
(* timer_interrupt, lines 133-154. *)

Hook(name, seen) == [hook |-> name, seen |-> seen]
HookArg(name, arg, seen) == [hook |-> name, arg |-> arg, seen |-> seen]

\* A handler that counts every interrupt twice.
NextTickTwice(tk) == tk + 2

\* ticks++ (line 135)
NextTick(tk) == tk + 1

\* A timer_ticks that leaves interrupts enabled whatever the level was.
intr_set_level_enable(old_level) == "ON"

\* intr_set_level (old_level) (line 79): the level timer_ticks leaves.
intr_set_level(old_level) == old_level

\* timer_ticks () run to completion at interrupt level lvl with the counter
\* at tk: intr_disable, read, intr_set_level (old_level), return.
timer_ticks_value(lvl, tk) ==
    LET old_level == lvl
        t == tk
    IN  [t |-> t, level |-> intr_set_level(old_level)]

\* A handler that recomputes the running thread's priority on every tick.
timer_interrupt_calls_no_mod4(old, mlfqs, freq) ==
    LET tk == old + 1
        now == tk
        feedback ==
            IF mlfqs
            THEN <<Hook("mlfqs_increment", tk), Hook("mlfqs_priority", tk)>>
                 \o (IF now % 4 = 0 /\ now % freq = 0
                     THEN <<Hook("mlfqs_load_avg", tk),
                            Hook("mlfqs_recalc", tk)>>
                     ELSE <<>>)
            ELSE <<>>
    IN  <<Hook("thread_tick", tk)>> \o feedback
        \o <<HookArg("thread_awake", tk, tk)>>

\* A handler that hands thread_awake the counter's value on entry.
timer_interrupt_calls_stale_awake(old, mlfqs, freq) ==
    LET tk == old + 1
        now == tk
        feedback ==
            IF mlfqs
            THEN <<Hook("mlfqs_increment", tk)>>
                 \o (IF now % 4 = 0
                     THEN <<Hook("mlfqs_priority", tk)>>
                          \o (IF now % freq = 0
                              THEN <<Hook("mlfqs_load_avg", tk),
                                     Hook("mlfqs_recalc", tk)>>
                              ELSE <<>>)
                     ELSE <<>>)
            ELSE <<>>
    IN  <<Hook("thread_tick", tk)>> \o feedback
        \o <<HookArg("thread_awake", old, tk)>>

\* A handler that calls mlfqs_increment only on every fourth tick.
timer_interrupt_calls_incr_mod4(old, mlfqs, freq) ==
    LET tk == old + 1
        now == tk
        feedback ==
            IF mlfqs /\ now % 4 = 0
            THEN <<Hook("mlfqs_increment", tk), Hook("mlfqs_priority", tk)>>
                 \o (IF now % freq = 0
                     THEN <<Hook("mlfqs_load_avg", tk),
                            Hook("mlfqs_recalc", tk)>>
                     ELSE <<>>)
            ELSE <<>>
    IN  <<Hook("thread_tick", tk)>> \o feedback
        \o <<HookArg("thread_awake", tk, tk)>>

\* The hooks one invocation of the handler calls, in order, the counter
\* being old when it is entered.  seen is the counter's value at the call.
timer_interrupt_calls(old, mlfqs, freq) ==
    LET tk == NextTick(old)
        now == timer_ticks_value("OFF", tk).t
        feedback ==
            IF mlfqs
            THEN <<Hook("mlfqs_increment", tk)>>
                 \o (IF now % 4 = 0
                     THEN <<Hook("mlfqs_priority", tk)>>
                          \o (IF now % freq = 0
                              THEN <<Hook("mlfqs_load_avg", tk),
                                     Hook("mlfqs_recalc", tk)>>
                              ELSE <<>>)
                     ELSE <<>>)
            ELSE <<>>
    IN  <<Hook("thread_tick", tk)>> \o feedback
        \o <<HookArg("thread_awake", tk, tk)>>

Blocked == pc # <<>> /\ Head(pc) = "thread_sleep"

Halted == pc = <<"PANIC">>

InTimerCalibrate == pc # <<>> /\ pc[Len(pc)] \in {"tc_dbl", "tc_dbl_ret", "tc_ref", "tc_ref_ret"}

\* A probe of too_many_loops starts its busy-wait on a tick boundary: the
\* next tick comes during the busy-wait exactly when its iterations exceed
\* the capacity of one tick, and not while the probe leaves its
\* synchronising loop or compares the counter.
ProbeHoldsTick ==
    /\ pc # <<>>
    /\ \/ Head(pc) = "tm_spin" /\ ticks # loc.tm_start
       \/ Head(pc) = "tm_ret"
       \/ /\ Head(pc) = "busy_wait" /\ Len(pc) > 1 /\ pc[2] = "tm_ret"
          /\ \/ ~Gt(loc.tm_loops, cap)
             \/ ticks - loc.tm_start >= MaxOverrun

\* thread_awake (now) of threads/thread.c: release the sleeper whose wake
\* time has come.
thread_awake(calls) ==
    LET nows == {calls[i].arg : i \in {j \in 1 .. Len(calls) : calls[j].hook = "thread_awake"}}
    IN  IF Blocked /\ \E w \in wake : \E now \in nows : w <= now
        THEN pc' = Tail(pc) /\ wake' = {}
        ELSE UNCHANGED <<pc, wake>>

timer_interrupt ==
    /\ ~Halted
    /\ intr_level = "ON" \/ Blocked
    /\ ~ProbeHoldsTick
    /\ LET calls == timer_interrupt_calls(ticks, thread_mlfqs, TIMER_FREQ) IN
        /\ ticks' = NextTick(ticks)
        /\ trace' = Append(trace, calls)
        /\ thread_awake(calls)
    /\ UNCHANGED <<loops_per_tick, thread_mlfqs, TIMER_FREQ, cap, intr_level,
                   op, loc, tcalls>>

CadenceTick == ticks < MaxCadenceTicks /\ timer_interrupt

SpecCadence == InitCadence /\ [][CadenceTick]_vars


----------------------------------------------------------------------------
(* The calling thread. *)

Levels == {"ON", "OFF"}

\* Arguments of the calls checked.
SleepTicksArgs == {-1, 0, 1, 2}

\* The least NUM that real_time_sleep (NUM, denom) converts to one tick.
OneTick(denom) == (denom + TIMER_FREQ - 1) \div TIMER_FREQ

RealTimeArgs(denom) == {-60, -1, 0, 1, 50, OneTick(denom), 2 * OneTick(denom)}

\* A call the thread makes.
Call(name, arg) == [call |-> name, arg |-> arg]

\* A call of the sleep queue; at is the tick counter's value at the call.
CallAt(name, arg) == [call |-> name, arg |-> arg, at |-> ticks]

\* A public operation is called by the idle thread at interrupt level lvl.
Enter(name, arg, lvl) ==
    /\ pc = <<>>
    /\ op' = [name |-> name, arg |-> arg, level |-> lvl]
    /\ intr_level' = lvl

Goto(label) == pc' = <<label>> \o Tail(pc)

Return == pc' = Tail(pc)

Panic == pc' = <<"PANIC">>

At(label) == pc # <<>> /\ Head(pc) = label

(* timer_ticks, lines 75-82 *)

timer_ticks ==
    \E lvl \in Levels :
        /\ Enter("timer_ticks", 0, lvl)
        /\ pc' = <<"tt_disable">>
        /\ loc' = IF op.name = "timer_ticks"
                  THEN [Loc0 EXCEPT !.has_prev = TRUE, !.prev_t = loc.ret,
                                    !.prev_n = loc.seen_n]
                  ELSE Loc0
        /\ tcalls' = <<>>
        /\ UNCHANGED <<ticks, loops_per_tick, thread_mlfqs, TIMER_FREQ, cap,
                       wake, trace>>

\* enum intr_level old_level = intr_disable ();
tt_disable ==
    /\ At("tt_disable")
    /\ loc' = [loc EXCEPT !.old_level = intr_level]
    /\ intr_level' = "OFF"
    /\ Goto("tt_read")
    /\ UNCHANGED <<ticks, loops_per_tick, thread_mlfqs, TIMER_FREQ, cap, op,
                   wake, trace, tcalls>>

\* int64_t t = ticks;  seen_n is the number of interrupts handled so far.
tt_read ==
    /\ At("tt_read")
    /\ loc' = [loc EXCEPT !.t = ticks, !.seen_n = Len(trace)]
    /\ Goto("tt_restore")
    /\ UNCHANGED <<ticks, loops_per_tick, thread_mlfqs, TIMER_FREQ, cap,
                   intr_level, op, wake, trace, tcalls>>

\* intr_set_level (old_level); barrier (); return t;
tt_restore ==
    /\ At("tt_restore")
    /\ intr_level' = intr_set_level(loc.old_level)
    /\ loc' = [loc EXCEPT !.ret = loc.t]
    /\ Return
    /\ UNCHANGED <<ticks, loops_per_tick, thread_mlfqs, TIMER_FREQ, cap, op,
                   wake, trace, tcalls>>

(* timer_elapsed, lines 86-89 *)

timer_elapsed ==
    \E lvl \in Levels : \E then \in {0, ticks - 1, ticks} \cap (0 .. ticks) :
        /\ Enter("timer_elapsed", then, lvl)
        /\ pc' = <<"tt_disable", "te_ret">>
        /\ loc' = [Loc0 EXCEPT !.then = then]
        /\ tcalls' = <<>>
        /\ UNCHANGED <<ticks, loops_per_tick, thread_mlfqs, TIMER_FREQ, cap,
                       wake, trace>>

\* A timer_elapsed that subtracts the wrong way round.
elapsed_value_swapped(now, then) == then - now

\* timer_ticks () - then
elapsed_value(now, then) == now - then

\* return timer_ticks () - then;
te_ret ==
    /\ At("te_ret")
    /\ loc' = [loc EXCEPT !.ret = elapsed_value(loc.ret, loc.then)]
    /\ Return
    /\ UNCHANGED <<ticks, loops_per_tick, thread_mlfqs, TIMER_FREQ, cap,
                   intr_level, op, wake, trace, tcalls>>

(* timer_print_stats, lines 127-130 *)

timer_print_stats ==
    \E lvl \in Levels :
        /\ Enter("timer_print_stats", 0, lvl)
        /\ pc' = <<"tt_disable", "tp_printf">>
        /\ loc' = Loc0
        /\ tcalls' = <<>>
        /\ UNCHANGED <<ticks, loops_per_tick, thread_mlfqs, TIMER_FREQ, cap,
                       wake, trace>>

tp_printf ==
    /\ At("tp_printf")
    /\ tcalls' = Append(tcalls, Call("printf", loc.ret))
    /\ Return
    /\ UNCHANGED <<ticks, loops_per_tick, thread_mlfqs, TIMER_FREQ, cap,
                   intr_level, op, loc, wake, trace>>

(* timer_sleep, lines 92-106 *)

timer_sleep ==
    \E lvl \in Levels : \E n \in SleepTicksArgs :
        /\ Enter("timer_sleep", n, lvl)
        /\ pc' = <<"tt_disable", "ts_sleep">>
        /\ loc' = [Loc0 EXCEPT !.n = n]
        /\ tcalls' = <<Call("timer_sleep", n)>>
        /\ UNCHANGED <<ticks, loops_per_tick, thread_mlfqs, TIMER_FREQ, cap,
                       wake, trace>>

\* A timer_sleep that adds the duration to the counter as it is at line 105.
timer_sleep_wake_now(start, n) == ticks + n

\* A timer_sleep that treats a negative duration as 0.
timer_sleep_wake_clamped(start, n) == start + (IF n < 0 THEN 0 ELSE n)

\* A timer_sleep that sleeps one tick too long.
timer_sleep_wake_late(start, n) == start + n + 1

\* The argument of thread_sleep at line 105.
timer_sleep_wake(start, n) == start + n

\* int64_t start = timer_ticks (); thread_sleep (start + ticks);
\* thread_sleep of threads/thread.c registers the wake time and blocks.
ts_sleep ==
    /\ At("ts_sleep")
    /\ LET start == loc.ret
           w == timer_sleep_wake(start, loc.n) IN
        /\ loc' = [loc EXCEPT !.start = start]
        /\ tcalls' = Append(tcalls, CallAt("thread_sleep", w))
        /\ wake' = {w}
    /\ Goto("thread_sleep")
    /\ UNCHANGED <<ticks, loops_per_tick, thread_mlfqs, TIMER_FREQ, cap,
                   intr_level, op, trace>>

(* real_time_sleep, lines 188-211, and its callers, lines 109-124 *)

\* A conversion that rounds up instead of down.
real_time_ticks_round_up(num, denom) == CDiv(num * TIMER_FREQ + denom - 1, denom)

\* int64_t ticks = num * TIMER_FREQ / denom;
real_time_ticks(num, denom) == CDiv(num * TIMER_FREQ, denom)

\* loops_per_tick * num / 1000 * TIMER_FREQ / (denom / 1000)
real_time_loops(num, denom) ==
    CDiv(CDiv(ToNat(loops_per_tick) * num, 1000) * TIMER_FREQ, CDiv(denom, 1000))

real_time_sleep(name, num, denom, lvl) ==
    /\ Enter(name, num, lvl)
    /\ LET tk == real_time_ticks(num, denom) IN
        IF lvl # "ON"
        THEN Panic /\ loc' = Loc0 /\ tcalls' = <<>>
        ELSE IF tk > 0
        THEN /\ pc' = <<"tt_disable", "ts_sleep">>
             /\ loc' = [Loc0 EXCEPT !.n = tk]
             /\ tcalls' = <<Call("timer_sleep", tk)>>
        ELSE IF denom % 1000 # 0
        THEN Panic /\ loc' = Loc0 /\ tcalls' = <<>>
        ELSE /\ pc' = <<"busy_wait">>
             /\ loc' = [Loc0 EXCEPT !.loops = real_time_loops(num, denom)]
             /\ tcalls' = <<Call("busy_wait", real_time_loops(num, denom))>>
    /\ UNCHANGED <<ticks, loops_per_tick, thread_mlfqs, TIMER_FREQ, cap,
                   wake, trace>>

timer_msleep ==
    \E lvl \in Levels : \E ms \in RealTimeArgs(1000) :
        real_time_sleep("timer_msleep", ms, 1000, lvl)

timer_usleep ==
    \E lvl \in Levels : \E us \in RealTimeArgs(1000 * 1000) :
        real_time_sleep("timer_usleep", us, 1000 * 1000, lvl)

timer_nsleep ==
    \E lvl \in Levels : \E ns \in RealTimeArgs(1000 * 1000 * 1000) \ {50} :
        real_time_sleep("timer_nsleep", ns, 1000 * 1000 * 1000, lvl)

(* busy_wait, lines 181-185 *)

InProbe == Len(pc) > 1 /\ pc[2] = "tm_ret"

\* while (loops-- > 0) barrier ();  A probe's busy-wait that exceeds the
\* capacity of one tick ends after the tick has come.
busy_wait ==
    /\ At("busy_wait")
    /\ InProbe /\ Gt(loc.tm_loops, cap) => ticks # loc.tm_start
    /\ Return
    /\ UNCHANGED <<ticks, loops_per_tick, thread_mlfqs, TIMER_FREQ, cap,
                   intr_level, op, loc, wake, trace, tcalls>>

(* too_many_loops, lines 158-172 *)

\* int64_t start = ticks;
tm_start ==
    /\ At("tm_start")
    /\ loc' = [loc EXCEPT !.tm_start = ticks]
    /\ Goto("tm_spin")
    /\ UNCHANGED <<ticks, loops_per_tick, thread_mlfqs, TIMER_FREQ, cap,
                   intr_level, op, wake, trace, tcalls>>

\* while (ticks == start) barrier ();  start = ticks;  busy_wait (loops);
tm_spin ==
    /\ At("tm_spin")
    /\ ticks # loc.tm_start
    /\ loc' = [loc EXCEPT !.tm_start = ticks]
    /\ pc' = <<"busy_wait", "tm_ret">> \o Tail(pc)
    /\ UNCHANGED <<ticks, loops_per_tick, thread_mlfqs, TIMER_FREQ, cap,
                   intr_level, op, wake, trace, tcalls>>

\* barrier ();  return start != ticks;
tm_ret ==
    /\ At("tm_ret")
    /\ loc' = [loc EXCEPT !.tm_ret = (loc.tm_start # ticks)]
    /\ Return
    /\ UNCHANGED <<ticks, loops_per_tick, thread_mlfqs, TIMER_FREQ, cap,
                   intr_level, op, wake, trace, tcalls>>

(* timer_calibrate, lines 50-72 *)

\* ASSERT (intr_get_level () == INTR_ON);  loops_per_tick = 1u << 10;
timer_calibrate ==
    \E lvl \in Levels :
        /\ Enter("timer_calibrate", 0, lvl)
        /\ loc' = Loc0
        /\ IF lvl # "ON"
           THEN Panic /\ tcalls' = <<>> /\ UNCHANGED loops_per_tick
           ELSE /\ loops_per_tick' = Shl({0}, 10)
                /\ tcalls' = <<Call("printf", 0)>>
                /\ pc' = <<"tc_dbl">>
        /\ UNCHANGED <<ticks, thread_mlfqs, TIMER_FREQ, cap, wake, trace>>

\* The call of too_many_loops (loops).
Probe(loops, back) ==
    /\ loc' = [loc EXCEPT !.tm_loops = loops]
    /\ tcalls' = Append(tcalls, Call("too_many_loops", loops))
    /\ pc' = <<"tm_start", back>> \o Tail(pc)

\* A doubling phase that probes the value it has, not the doubled one.
dbl_probe_loops_same(lpt) == lpt

\* loops_per_tick << 1, the iterations the doubling phase probes (line 60)
dbl_probe_loops(lpt) == Shl(lpt, 1)

\* while (!too_many_loops (loops_per_tick << 1))
tc_dbl ==
    /\ At("tc_dbl")
    /\ Probe(dbl_probe_loops(loops_per_tick), "tc_dbl_ret")
    /\ UNCHANGED <<ticks, loops_per_tick, thread_mlfqs, TIMER_FREQ, cap,
                   intr_level, op, wake, trace>>

\* loops_per_tick <<= 1;  ASSERT (loops_per_tick != 0);
\* after the loop: high_bit = loops_per_tick;  test_bit = high_bit >> 1
tc_dbl_ret ==
    /\ At("tc_dbl_ret")
    /\ IF ~loc.tm_ret
       THEN /\ loops_per_tick' = Shl(loops_per_tick, 1)
            /\ IF loops_per_tick' = {} THEN Panic ELSE Goto("tc_dbl")
            /\ UNCHANGED loc
       ELSE /\ loc' = [loc EXCEPT !.high_bit = loops_per_tick,
                                  !.test_bit = Shr(loops_per_tick, 1)]
            /\ Goto("tc_ref")
            /\ UNCHANGED loops_per_tick
    /\ UNCHANGED <<ticks, thread_mlfqs, TIMER_FREQ, cap, intr_level, op,
                   wake, trace, tcalls>>

\* for (...; test_bit != high_bit >> 10; ...)
\*     if (!too_many_loops (high_bit | test_bit))
\* after the loop: printf, return
tc_ref ==
    /\ At("tc_ref")
    /\ IF loc.test_bit # Shr(loc.high_bit, 10)
       THEN Probe(BitOr(loc.high_bit, loc.test_bit), "tc_ref_ret")
       ELSE /\ tcalls' = Append(tcalls, Call("printf", ToNat(loops_per_tick) * TIMER_FREQ))
            /\ Return
            /\ UNCHANGED loc
    /\ UNCHANGED <<ticks, loops_per_tick, thread_mlfqs, TIMER_FREQ, cap,
                   intr_level, op, wake, trace>>

\* loops_per_tick |= test_bit;  test_bit >>= 1
tc_ref_ret ==
    /\ At("tc_ref_ret")
    /\ loops_per_tick' =
          IF ~loc.tm_ret THEN BitOr(loops_per_tick, loc.test_bit)
          ELSE loops_per_tick
    /\ loc' = [loc EXCEPT !.test_bit = Shr(loc.test_bit, 1)]
    /\ Goto("tc_ref")
    /\ UNCHANGED <<ticks, thread_mlfqs, TIMER_FREQ, cap, intr_level, op,
                   wake, trace, tcalls>>

----------------------------------------------------------------------------
(* The specifications. *)

Tick ==
    /\ ticks < (IF InTimerCalibrate THEN MaxCalTicks ELSE MaxTicks)
    /\ timer_interrupt

Next ==
    \/ Tick
    \/ timer_ticks \/ tt_disable \/ tt_read \/ tt_restore
    \/ timer_elapsed \/ te_ret
    \/ timer_print_stats \/ tp_printf
    \/ timer_sleep \/ ts_sleep
    \/ timer_msleep \/ timer_usleep \/ timer_nsleep
    \/ busy_wait
    \/ timer_calibrate \/ tc_dbl \/ tc_dbl_ret \/ tc_ref \/ tc_ref_ret
    \/ tm_start \/ tm_spin \/ tm_ret

Spec == Init /\ [][Next]_vars


----------------------------------------------------------------------------
(* Properties of the tick counter and of the interrupt handler. *)

\* How often the handler of interrupt i called hook h.
Fired(i, h) == Cardinality({j \in 1 .. Len(trace[i]) : trace[i][j].hook = h})

\* The most hooks one invocation of the handler calls (lines 136-153).
HandlerCalls == 1 .. 6

\* How often hook h was called during the interrupts of the set W.
FiredIn(W, h) ==
    Cardinality({x \in W \X HandlerCalls :
                    /\ x[2] <= Len(trace[x[1]])
                    /\ trace[x[1]][x[2]].hook = h})

FeedbackHooks ==
    {"mlfqs_increment", "mlfqs_priority", "mlfqs_load_avg", "mlfqs_recalc"}

\* C1: the tick counter starts at 0, every handled interrupt increases it
\* by exactly 1 and no other step changes it: it always equals the number
\* of interrupts handled so far, the i-th handler runs with the counter at
\* i, and the counter never decreases.
C1_TicksCountInterrupts ==
    /\ [](/\ ticks = Len(trace)
          /\ \A i \in 1 .. Len(trace) :
                \A j \in 1 .. Len(trace[i]) : trace[i][j].seen = i)
    /\ [][\/ ticks' = ticks /\ trace' = trace
          \/ ticks' = ticks + 1 /\ Len(trace') = Len(trace) + 1]_vars

\* timer_calibrate has returned, after interrupts and other operations.
C1_Witness ==
    /\ ticks > MaxTicks
    /\ pc = <<>>
    /\ op.name = "timer_calibrate"
    /\ loops_per_tick # {}

\* C2: with thread_mlfqs set, every tick whose counter value is a multiple
\* of TIMER_FREQ calls mlfqs_load_avg and then mlfqs_recalc, whether or not
\* the value is a multiple of 4.
C2_LoadAvgEverySecond ==
    thread_mlfqs =>
        \A i \in 1 .. Len(trace) :
            i % TIMER_FREQ = 0 =>
                \E j \in 1 .. Len(trace[i]) - 1 :
                    /\ trace[i][j].hook = "mlfqs_load_avg"
                    /\ trace[i][j + 1].hook = "mlfqs_recalc"

\* The last 4 * TIMER_FREQ interrupts handled.
LastWindow == (ticks - 4 * TIMER_FREQ + 1) .. ticks

RECURSIVE Gcd(_, _)
Gcd(a, b) == IF b = 0 THEN a ELSE Gcd(b, a % b)

\* C3 as stated: with thread_mlfqs set, in every window of 4 * TIMER_FREQ
\* consecutive ticks mlfqs_priority is called TIMER_FREQ times and
\* mlfqs_load_avg and mlfqs_recalc once each.
C3_WindowOnce ==
    thread_mlfqs /\ ticks >= 4 * TIMER_FREQ =>
        /\ FiredIn(LastWindow, "mlfqs_priority") = TIMER_FREQ
        /\ FiredIn(LastWindow, "mlfqs_load_avg") = 1
        /\ FiredIn(LastWindow, "mlfqs_recalc") = 1

\* C3 amended: with thread_mlfqs set, in every window of 4 * TIMER_FREQ
\* consecutive ticks mlfqs_priority is called TIMER_FREQ times and
\* mlfqs_load_avg and mlfqs_recalc gcd (4, TIMER_FREQ) times each.
C3_WindowGcd ==
    thread_mlfqs /\ ticks >= 4 * TIMER_FREQ =>
        /\ FiredIn(LastWindow, "mlfqs_priority") = TIMER_FREQ
        /\ FiredIn(LastWindow, "mlfqs_load_avg") = Gcd(4, TIMER_FREQ)
        /\ FiredIn(LastWindow, "mlfqs_recalc") = Gcd(4, TIMER_FREQ)

\* A window that does not start at tick 1 has passed, in feedback mode.
C3_Witness ==
    thread_mlfqs /\ TIMER_FREQ = 100 /\ ticks = 4 * TIMER_FREQ + 3

Rank(h) ==
    CASE h = "thread_tick" -> 1
      [] h = "mlfqs_increment" -> 2
      [] h = "mlfqs_priority" -> 3
      [] h = "mlfqs_load_avg" -> 4
      [] h = "mlfqs_recalc" -> 5
      [] h = "thread_awake" -> 6

\* C4: every invocation of the handler increments the counter first, then
\* calls thread_tick, then (in feedback mode only) mlfqs_increment,
\* mlfqs_priority, mlfqs_load_avg, mlfqs_recalc in this order, each at most
\* once, and last thread_awake, exactly once and with the incremented
\* counter; mlfqs_recalc is preceded by mlfqs_load_avg in the same tick.
C4_HandlerOrder ==
    \A i \in 1 .. Len(trace) :
        LET c == trace[i] IN
        /\ \A j \in 1 .. Len(c) : c[j].seen = i
        /\ \A j, k \in 1 .. Len(c) : j < k => Rank(c[j].hook) < Rank(c[k].hook)
        /\ c[1].hook = "thread_tick"
        /\ c[Len(c)].hook = "thread_awake" /\ c[Len(c)].arg = i
        /\ Fired(i, "thread_awake") = 1
        /\ (\E j \in 1 .. Len(c) : c[j].hook \in FeedbackHooks) => thread_mlfqs
        /\ \A k \in 1 .. Len(c) :
              c[k].hook = "mlfqs_recalc" =>
                  \E j \in 1 .. k - 1 : c[j].hook = "mlfqs_load_avg"

\* A handler has run all six hooks.
C4_Witness ==
    \E i \in 1 .. Len(trace) : Len(trace[i]) = 6

\* C5: with thread_mlfqs clear no handler calls a feedback hook, while
\* thread_tick and thread_awake run on every tick; with it set
\* mlfqs_increment is called exactly once on every tick; the handler never
\* writes thread_mlfqs.
C5_FeedbackOnlyInMode ==
    /\ [](\A i \in 1 .. Len(trace) :
            /\ Fired(i, "thread_tick") = 1
            /\ Fired(i, "thread_awake") = 1
            /\ ~thread_mlfqs => \A h \in FeedbackHooks : Fired(i, h) = 0
            /\ thread_mlfqs => Fired(i, "mlfqs_increment") = 1)
    /\ [][thread_mlfqs' = thread_mlfqs]_vars

\* Without feedback mode, ticks that are multiples of 4 and of TIMER_FREQ
\* have been handled.
C5_Witness ==
    ~thread_mlfqs /\ ticks = 4 * TIMER_FREQ


----------------------------------------------------------------------------
(* Properties of the sleep entry points. *)

SleepOps == {"timer_sleep", "timer_msleep", "timer_usleep", "timer_nsleep"}

RealTimeOps == SleepOps \ {"timer_sleep"}

\* The denominator a real-time entry point passes to real_time_sleep.
Denom(name) ==
    CASE name = "timer_msleep" -> 1000
      [] name = "timer_usleep" -> 1000 * 1000
      [] name = "timer_nsleep" -> 1000 * 1000 * 1000

\* The positions in tcalls of the calls of function f.
CallsOf(f) == {j \in 1 .. Len(tcalls) : tcalls[j].call = f}

\* C6: every call timer_sleep (n) calls thread_sleep exactly once, with the
\* counter value timer_ticks read plus n, however many interrupts were
\* handled between the read and the call.
C6_WakeIsSnapshotPlusN ==
    tcalls # <<>> /\ tcalls[1].call = "timer_sleep" =>
        /\ Cardinality(CallsOf("thread_sleep")) <= 1
        /\ \A j \in CallsOf("thread_sleep") :
              tcalls[j].arg = loc.t + tcalls[1].arg
        /\ pc = <<>> \/ Blocked => Cardinality(CallsOf("thread_sleep")) = 1

\* thread_sleep was called two interrupts after the snapshot.
C6_Witness ==
    /\ tcalls # <<>> /\ tcalls[1].call = "timer_sleep"
    /\ \E j \in CallsOf("thread_sleep") : tcalls[j].at >= loc.t + 2

\* C7: a sleep entry point called with interrupts disabled halts and
\* neither registers a wake time nor busy-waits.
C7_SleepWithInterruptsOffHalts ==
    op.name \in SleepOps /\ op.level = "OFF" =>
        /\ CallsOf("thread_sleep") = {}
        /\ CallsOf("busy_wait") = {}
        /\ pc # <<>>

\* C8 as stated: a sleep entry point called with a negative duration halts
\* and neither registers a wake time nor returns.
C8_NegativeSleepHalts ==
    op.name \in SleepOps /\ op.arg < 0 =>
        /\ CallsOf("thread_sleep") = {}
        /\ pc # <<>>

\* C8 amended: a negative duration halts nothing.  timer_sleep (n) with
\* n < 0 registers the wake time snapshot + n, which lies before the
\* snapshot; timer_msleep, timer_usleep and timer_nsleep with a negative
\* argument and interrupts enabled busy-wait for a non-positive number of
\* iterations and register no wake time.
C8_NegativeSleepProceeds ==
    op.name \in SleepOps /\ op.arg < 0 =>
        /\ op.name = "timer_sleep" =>
              /\ ~Halted
              /\ \A j \in CallsOf("thread_sleep") :
                    tcalls[j].arg = loc.t + op.arg /\ tcalls[j].arg < loc.t
              /\ pc = <<>> \/ Blocked => CallsOf("thread_sleep") # {}
        /\ op.name \in RealTimeOps /\ op.level = "ON" =>
              /\ ~Halted
              /\ Len(tcalls) = 1
              /\ tcalls[1].call = "busy_wait" /\ tcalls[1].arg <= 0

\* timer_sleep with a negative duration has registered a wake time.
C8_Witness ==
    op.name = "timer_sleep" /\ op.arg < 0 /\ Blocked /\ wake = {loc.t + op.arg}

\* C9: real_time_sleep (num, denom) with num >= 0, called with interrupts
\* enabled, calls timer_sleep with floor (num * TIMER_FREQ / denom) when
\* that is positive and never busy-waits then; otherwise it busy-waits and
\* never registers a wake time.
C9_RealTimeSleepPaths ==
    op.name \in RealTimeOps /\ op.arg >= 0 /\ op.level = "ON" =>
        LET k == (op.arg * TIMER_FREQ) \div Denom(op.name) IN
        /\ ~Halted
        /\ tcalls # <<>>
        /\ IF k > 0
           THEN /\ tcalls[1].call = "timer_sleep" /\ tcalls[1].arg = k
                /\ CallsOf("timer_sleep") = {1}
                /\ CallsOf("busy_wait") = {}
           ELSE /\ tcalls[1].call = "busy_wait"
                /\ Len(tcalls) = 1

\* A real-time sleep of one tick has registered its wake time and returned.
C9_Witness ==
    /\ op.name = "timer_usleep" /\ op.arg > 0 /\ op.level = "ON"
    /\ pc = <<>>
    /\ CallsOf("thread_sleep") # {}

\* C10: the value timer_calibrate leaves in loops_per_tick fits in one
\* tick: that many iterations do not exceed the capacity.
C10_CalibratedFitsOneTick ==
    op.name = "timer_calibrate" /\ pc = <<>> => ~Gt(loops_per_tick, cap)

----------------------------------------------------------------------------
(* Properties of the sleep from registration to release. *)

\* The thread is inside a call timer_sleep (n) with n >= 0 and has read
\* the counter.
SleepingSince ==
    /\ tcalls # <<>> /\ tcalls[1].call = "timer_sleep" /\ tcalls[1].arg >= 0
    /\ pc # <<>> /\ Head(pc) \in {"ts_sleep", "thread_sleep"}

\* C11 as stated: a thread in timer_sleep (n), n >= 0, is not released
\* while the counter is below start + n, and the first tick that brings the
\* counter to start + n or beyond releases it.
C11_ReleasedAtFirstDueTick ==
    [][SleepingSince /\ ticks' # ticks =>
          IF ticks' >= loc.t + tcalls[1].arg
          THEN ~SleepingSince'
          ELSE pc' = pc]_vars

\* C11 amended: a thread that timer_sleep (n), n >= 0, has registered is
\* not released while the counter is below start + n, and the first tick
\* handled after the registration that finds the counter at start + n or
\* beyond releases it; a tick handled between the snapshot and the
\* registration releases nothing, whatever the counter's value.
C11_ReleasedAtFirstDueTickAfterRegistration ==
    /\ [](SleepingSince /\ Blocked => wake = {loc.t + tcalls[1].arg})
    /\ [][SleepingSince /\ ticks' # ticks =>
             IF Blocked /\ ticks' >= loc.t + tcalls[1].arg
             THEN pc' = Tail(pc) /\ wake' = {}
             ELSE pc' = pc /\ wake' = wake]_vars

\* A sleep of at least one tick that was registered when the counter had
\* already reached its wake time has been released.
C11_Witness ==
    /\ tcalls # <<>> /\ tcalls[1].call = "timer_sleep" /\ tcalls[1].arg >= 1
    /\ pc = <<>>
    /\ \E j \in CallsOf("thread_sleep") : tcalls[j].at >= tcalls[j].arg

----------------------------------------------------------------------------
(* Properties of the readers of the counter. *)

\* C12: of two timer_ticks calls made one after the other, the second
\* result minus the first is the number of interrupts handled between the
\* two reads of the counter: never negative, positive when an interrupt
\* came in between; and timer_elapsed of a value the counter has had is
\* never negative.
C12_TicksDifferenceCountsInterrupts ==
    /\ op.name = "timer_ticks" /\ pc = <<>> /\ loc.has_prev =>
          /\ loc.ret - loc.prev_t = loc.seen_n - loc.prev_n
          /\ loc.ret >= loc.prev_t
          /\ loc.seen_n > loc.prev_n => loc.ret > loc.prev_t
    /\ op.name = "timer_elapsed" /\ pc = <<>> => loc.ret >= 0

\* Two timer_ticks calls with two interrupts between their reads.
C12_Witness ==
    /\ op.name = "timer_ticks" /\ pc = <<>> /\ loc.has_prev
    /\ loc.seen_n - loc.prev_n >= 2

----------------------------------------------------------------------------
(* timer_init, lines 35-46, for every frequency the build accepts. *)

\* #if TIMER_FREQ < 19 / #if TIMER_FREQ > 1000: the frequencies that compile.
TimerFreqRange == 19 .. 1000

InitTimerInit == Boot(TimerFreqRange, {ToBits(1331)})

\* outb (port, value)
Outb(port, value) == [call |-> "outb", port |-> port, arg |-> value]

\* A divisor computed without the rounding term.
timer_init_count_floor(freq) == (1193180 \div freq) % 65536

\* uint16_t count = (1193180 + TIMER_FREQ / 2) / TIMER_FREQ;
timer_init_count(freq) == ((1193180 + freq \div 2) \div freq) % 65536

timer_init ==
    \E lvl \in Levels :
        /\ op.name = "boot"
        /\ Enter("timer_init", 0, lvl)
        /\ pc' = <<"ti_mode">>
        /\ loc' = [Loc0 EXCEPT !.count = timer_init_count(TIMER_FREQ)]
        /\ tcalls' = <<Call("timer_init", 0)>>
        /\ UNCHANGED <<ticks, loops_per_tick, thread_mlfqs, TIMER_FREQ, cap,
                       wake, trace>>

\* outb (0x43, 0x34);
ti_mode ==
    /\ At("ti_mode")
    /\ tcalls' = Append(tcalls, Outb(67, 52))
    /\ Goto("ti_lo")
    /\ UNCHANGED <<ticks, loops_per_tick, thread_mlfqs, TIMER_FREQ, cap,
                   intr_level, op, loc, wake, trace>>

\* outb (0x40, count & 0xff);
ti_lo ==
    /\ At("ti_lo")
    /\ tcalls' = Append(tcalls, Outb(64, loc.count % 256))
    /\ Goto("ti_hi")
    /\ UNCHANGED <<ticks, loops_per_tick, thread_mlfqs, TIMER_FREQ, cap,
                   intr_level, op, loc, wake, trace>>

\* outb (0x40, count >> 8);  outb takes a uint8_t.
ti_hi ==
    /\ At("ti_hi")
    /\ tcalls' = Append(tcalls, Outb(64, (loc.count \div 256) % 256))
    /\ Goto("ti_register")
    /\ UNCHANGED <<ticks, loops_per_tick, thread_mlfqs, TIMER_FREQ, cap,
                   intr_level, op, loc, wake, trace>>

\* intr_register_ext (0x20, timer_interrupt, "8254 Timer");
ti_register ==
    /\ At("ti_register")
    /\ tcalls' = Append(tcalls, Call("intr_register_ext", 32))
    /\ Return
    /\ UNCHANGED <<ticks, loops_per_tick, thread_mlfqs, TIMER_FREQ, cap,
                   intr_level, op, loc, wake, trace>>

NextTimerInit ==
    \/ timer_init
    \/ ti_mode
    \/ ti_lo
    \/ ti_hi
    \/ ti_register

SpecTimerInit == InitTimerInit /\ [][NextTimerInit]_vars

\* C13: for every TIMER_FREQ from 19 to 1000, timer_init computes the
\* integer nearest to 1193180 / TIMER_FREQ, the value is at most 65535, and
\* the two bytes written to port 0x40 after the mode byte, low byte first,
\* give it back as low + 256 * high.
C13_DivisorNearestFitsAndSplits ==
    op.name = "timer_init" =>
        /\ 2 * loc.count * TIMER_FREQ - 2 * 1193180 <= TIMER_FREQ
        /\ 2 * 1193180 - 2 * loc.count * TIMER_FREQ <= TIMER_FREQ
        /\ loc.count = (1193180 + TIMER_FREQ \div 2) \div TIMER_FREQ
        /\ loc.count <= 65535
        /\ pc = <<>> =>
              /\ Len(tcalls) = 5
              /\ tcalls[2] = Outb(67, 52)
              /\ tcalls[3].call = "outb" /\ tcalls[3].port = 64
              /\ tcalls[4].call = "outb" /\ tcalls[4].port = 64
              /\ tcalls[3].arg \in 0 .. 255 /\ tcalls[4].arg \in 0 .. 255
              /\ tcalls[3].arg + 256 * tcalls[4].arg = loc.count

\* timer_init has run to its end at the lowest frequency, where the divisor
\* is largest.
C13_Witness ==
    /\ op.name = "timer_init" /\ pc = <<>> /\ TIMER_FREQ = 19
    /\ loc.count = 62799 /\ tcalls[4].arg = 245

\* C14 as stated: every read of the tick counter by the thread, those of
\* too_many_loops included, is made with interrupts disabled.
C14_CounterReadWithInterruptsOff ==
    pc # <<>> /\ Head(pc) \in {"tt_read", "tm_start", "tm_spin", "tm_ret"} =>
        intr_level = "OFF"

\* C15: timer_ticks leaves the interrupt level as it found it and no
\* interrupt is handled between its disable and its restore; inside the
\* handler it leaves interrupts disabled, and every hook and every test of
\* the i-th invocation sees the counter at i, the value that invocation
\* has just stored.
C15_TimerTicksKeepsLevelAndExcludesHandler ==
    /\ [][At("tt_restore") => intr_level' = op.level /\ loc'.ret = ticks']_vars
    /\ [][At("tt_read") \/ At("tt_restore") =>
             ticks' = ticks /\ trace' = trace]_vars
    /\ [](\A i \in 1 .. Len(trace) :
             /\ timer_ticks_value("OFF", i) = [t |-> i, level |-> "OFF"]
             /\ \A k \in 1 .. Len(trace[i]) : trace[i][k].seen = i
             /\ thread_mlfqs => (Fired(i, "mlfqs_priority") = 1 <=> i % 4 = 0))

\* timer_ticks entered with interrupts disabled has returned the counter
\* after the handler has run its every-fourth-tick branch.
C15_Witness ==
    /\ op.name = "timer_ticks" /\ op.level = "OFF" /\ pc = <<>>
    /\ intr_level = "OFF" /\ loc.ret = 4 /\ thread_mlfqs
    /\ Len(trace) = 4 /\ Fired(4, "mlfqs_priority") = 1

----------------------------------------------------------------------------
(* timer_calibrate alone, run once after boot, on machines of many
   capacities. *)

CalibrateCapSet ==
    {ToBits(c) : c \in {700, 1024, 1331, 5000, 100000}} \cup {{31}, 0 .. 31}

InitCalibrate == Boot({100}, CalibrateCapSet)

CalibrateTick == ticks < MaxProbeTicks /\ timer_interrupt

CalibrateOnce == op.name = "boot" /\ timer_calibrate

NextCalibrate ==
    \/ CalibrateTick
    \/ CalibrateOnce \/ tc_dbl \/ tc_dbl_ret \/ tc_ref \/ tc_ref_ret
    \/ tm_start \/ tm_spin \/ tm_ret
    \/ busy_wait

SpecCalibrate == InitCalibrate /\ [][NextCalibrate]_vars

\* The probes of the refinement phase: their argument has two bits set.
RefinementProbes ==
    {j \in CallsOf("too_many_loops") : Cardinality(tcalls[j].arg) = 2}

\* The doubling phase of the running or finished timer_calibrate has ended.
DoublingEnded == op.name = "timer_calibrate" /\ loc.high_bit # {}

\* C16 as stated: the refinement phase calls too_many_loops 8 times and
\* leaves no bit set in loops_per_tick below the eighth under the leading
\* one.
C16_RefinesEightBits ==
    op.name = "timer_calibrate" /\ pc = <<>> =>
        /\ Cardinality(RefinementProbes) = 8
        /\ \A b \in loops_per_tick : b >= Max(loops_per_tick) - 8

C18_OverflowHaltsElseAtLeast1024 ==
    /\ op.name = "timer_calibrate" /\ 31 \in cap =>
          /\ pc # <<>>
          /\ Cardinality(CallsOf("too_many_loops")) <= 22
    /\ op.name = "timer_calibrate" /\ loops_per_tick = {} => Halted
    /\ op.name = "timer_calibrate" /\ pc = <<>> =>
          loops_per_tick # {} /\ Max(loops_per_tick) >= 10

\* timer_calibrate has halted after the probe of the wrapped value.
C18_Witness ==
    /\ op.name = "timer_calibrate" /\ op.level = "ON" /\ Halted
    /\ loops_per_tick = {}
    /\ Cardinality(CallsOf("too_many_loops")) = 22
    /\ tcalls[Len(tcalls)].arg = {}

----------------------------------------------------------------------------
(* Properties of the sub-tick sleep and of the sleep of no ticks. *)

\* C19 as stated: a real-time sleep of a positive amount that converts to
\* no tick, made with a calibrated loops_per_tick of at least 2^10,
\* busy-waits at least one iteration.
C19_SubTickSleepWaits ==
    /\ op.name \in RealTimeOps /\ op.arg > 0 /\ op.level = "ON"
    /\ loops_per_tick # {} /\ Max(loops_per_tick) >= 10
    /\ tcalls # <<>> /\ tcalls[1].call = "busy_wait"
    => tcalls[1].arg >= 1

\* C20 as stated: timer_sleep (0) hands thread_sleep the value the tick
\* counter has when thread_sleep is called, never a smaller one.
C20_ZeroSleepWakeIsNow ==
    tcalls # <<>> /\ tcalls[1].call = "timer_sleep" /\ tcalls[1].arg = 0
    /\ op.name = "timer_sleep" =>
        \A j \in CallsOf("thread_sleep") : tcalls[j].arg = tcalls[j].at

=============================================================================
